---- MODULE Spec2Model ----
(***************************************************************************)
(* A model of the live schema migration coordinator.                       *)
(*                                                                         *)
(*   coordinator/server.ts             CoordinatorServer: the registry of  *)
(*                                     connections (apps), the per-phase   *)
(*                                     acknowledgment sets, the polling    *)
(*                                     wait and startMigration             *)
(*   coordinator/migration-executor.ts MigrationExecutor.executeMigrations *)
(*   client/app-client.ts              AppClient: the conforming client    *)
(*   types/index.ts                    Phase, MigrationStatus, messages    *)
(*                                                                         *)
(* The coordinator runs on one JavaScript event loop.  Each action below   *)
(* is one turn of that loop: a callback (connection, message, close, timer)*)
(* or the part of an async function between two awaits, together with the  *)
(* continuations (microtasks) that run before the next callback.           *)
(***************************************************************************)
EXTENDS Integers, Sequences, FiniteSets, TLC

\* ------------------------------------------------------------------ bounds

\* connections the server accepts during a run (each gets a fresh uuid)
MaxApps == 2
\* connections the server accepts during a run in which startMigration calls
\* overlap or a Migration object is handed in again
MaxAppsFew == 1
\* Migration objects handed to startMigration during a run
NumMigrations == 2
\* statements in the list (Migration.sql) of a migration
MaxSql == 2
\* messages that are no acknowledgment sent to the coordinator during a run
MaxMalformed == 1
\* acknowledgments a peer that is no AppClient sends during a run
MaxForged == 1
\* startMigration calls made during a run with such a peer
MaxCallsPeer == 1
\* startMigration calls made before a caller hands in an object a second time
MaxCalls == 1

AppIds == 1..MaxApps
Migrations == 1..NumMigrations

\* ------------------------------------------------------------------- types

\* types/index.ts: enum Phase
Phase == {"ANNOUNCE", "EXECUTE", "APPLY", "CONFIRM", "ROLLBACK"}

\* types/index.ts: enum MigrationStatus
MigrationStatus == {"PENDING", "ANNOUNCING", "EXECUTING", "APPLYING", "COMPLETED", "FAILED"}

\* a field a JavaScript object does not have
Undefined == "undefined"

\* currentMigration before the first startMigration (null)
NoMigration == 0

\* server.ts:37: the message handleConnection sends first
WelcomeMessage(appId) ==
    [type |-> "WELCOME", appId |-> appId, phase |-> Undefined,
     migrationId |-> NoMigration, status |-> Undefined]

\* types/index.ts: PhaseMessage as sendPhase builds it (the timestamp is
\* read by nobody and is left out)
PhaseMessage(phase, migrationId, status) ==
    [type |-> Undefined, appId |-> 0, phase |-> phase,
     migrationId |-> migrationId, status |-> status]

\* types/index.ts: AckMessage
AckMessage(phase, status, appId) ==
    [phase |-> phase, status |-> status, appId |-> appId]

\* server.ts:40: text JSON.parse rejects with a SyntaxError
NotJson == AckMessage(Undefined, "NOT_JSON", 0)

\* server.ts:40-41, 52: the text "null", which parses, and whose phase
\* handleAcknowledgment cannot read (TypeError)
JsonNull == AckMessage(Undefined, "NULL", 0)

\* server.ts:39-42: the texts whose handling throws inside the message callback
Throws(data) == data \in {NotJson, JsonNull}

\* server.ts:40: inbound texts that do not have the shape of types/index.ts
\* AckMessage: the two above, an object without phase and one whose phase
\* is no member of Phase
Malformed == {NotJson, JsonNull, AckMessage(Undefined, "ACKNOWLEDGED", 0), AckMessage("BOGUS", "ACKNOWLEDGED", 0)}

\* types/index.ts:45: the values of AckMessage.status
AckStatus == {"ACKNOWLEDGED", "ERROR"}

\* types/index.ts:43-48: the acknowledgments of a gating phase a peer can
\* build, with either status and the identifier of any connection as appId
Forged == {AckMessage(p, s, id) : p \in {"ANNOUNCE", "APPLY"}, s \in AckStatus, id \in AppIds}

\* Migration.sql of migration m: the statements are told apart by the
\* migration and the position they were listed at
SqlOf(m) == [i \in 1..MaxSql |-> <<m, i>>]

VARIABLES
    \* ---- CoordinatorServer
    apps,             \* keys of this.apps (Map<string, WebSocket>)
    readyState,       \* ws.readyState of every connection, "NONE" before accept
    acknowledgments,  \* this.acknowledgments: Map<Phase, Set<string>>
    currentMigration, \* this.currentMigration (the id of the object, or NoMigration)
    status,           \* Migration.status of every Migration object
    sql,              \* Migration.sql of every Migration object
    pc,               \* where each startMigration call stands
    calls,            \* startMigration calls each Migration object has been handed to
    alive,            \* the coordinator process runs (no uncaught exception has ended it)
    malformed,        \* messages sent so far by a peer that is no AppClient
    ticked,           \* whether the call's setInterval callback has run in this wait
    \* ---- MigrationExecutor and the database
    idx,              \* position of the for loop over sql in executeMigrations
    txn,              \* statements applied inside the call's open transaction
    db,               \* statements committed to the database, in commit order
    \* ---- the channels and the AppClient at the other end of each
    inbox,            \* coordinator -> client, in order
    outbox,           \* client -> coordinator, in order
    clientAppId,      \* AppClient.appId
    useNewSchema,     \* AppClient.useNewSchema
    applyTimers,      \* pending setTimeout(.., 100) callbacks of AppClient (APPLY)
    \* ---- history (read by the properties only)
    snap,             \* the connections open when the wait the call is in began
    outcome,          \* how each startMigration call ended
    execCalls,        \* executeMigrations invocations made by each call
    execResult,       \* what executeMigrations gave back to each call
    missed,           \* phases whose wait resolved for the call with a participant of snap unacknowledged
    bcast,            \* <<migrationId, phase, status>> of every sendPhase so far
    appliedMig,       \* migrationId of the APPLY message a client handled last
    sentFor,          \* for each message of outbox, the migrationId of the broadcast it answers
    timerFor,         \* for each pending timer of applyTimers, the migrationId of its APPLY message
    ackFor,           \* <<phase, appId, migrationId>> of the acknowledgments recorded since the phase's last reset
    opening,          \* what the turn that opened the latest wait did, in program order
    ackSeen           \* <<phase, appId, status, message.appId>> of the acknowledgments recorded since the phase's last reset

vars ==
    <<apps, readyState, acknowledgments, currentMigration, status, sql, pc, calls, alive, malformed, ticked,
      idx, txn, db, inbox, outbox, clientAppId, useNewSchema, applyTimers,
      snap, outcome, execCalls, execResult, missed, bcast, appliedMig, sentFor, timerFor, ackFor, opening, ackSeen>>

coordVars == <<acknowledgments, ackFor, opening, ackSeen, currentMigration, status, sql, pc, calls, alive, malformed, ticked, snap, outcome, execCalls, execResult, missed, bcast>>
execVars == <<idx, txn, db>>
clientVars == <<clientAppId, useNewSchema, applyTimers, appliedMig, timerFor>>

\* --------------------------------------------------------------- Map helpers

\* Map.has(k)
MapHas(map, k) == k \in DOMAIN map

\* Map.set(k, v)
MapSet(map, k, v) == [x \in (DOMAIN map) \cup {k} |-> IF x = k THEN v ELSE map[x]]

\* map.get(k)?.size: the size of the set under k, -1 standing for undefined
\* (which is === to no number)
MapGetSize(map, k) == IF k \in DOMAIN map THEN Cardinality(map[k]) ELSE -1

\* ------------------------------------------------------------------- Init

\* server.ts:20-31 (constructor), app-client.ts:5-11 (field initialisers)
Init ==
    /\ apps = {}
    /\ readyState = [a \in AppIds |-> "NONE"]
    /\ acknowledgments = [p \in {} |-> {}]
    /\ currentMigration = NoMigration
    /\ status = [m \in Migrations |-> "PENDING"]
    /\ sql = [m \in Migrations |-> <<>>]
    /\ pc = [m \in Migrations |-> "idle"]
    /\ calls = [m \in Migrations |-> 0]
    /\ alive = TRUE
    /\ malformed = 0
    /\ ticked = [m \in Migrations |-> FALSE]
    /\ idx = [m \in Migrations |-> 1]
    /\ txn = [m \in Migrations |-> <<>>]
    /\ db = <<>>
    /\ inbox = [a \in AppIds |-> <<>>]
    /\ outbox = [a \in AppIds |-> <<>>]
    /\ clientAppId = [a \in AppIds |-> 0]
    /\ useNewSchema = [a \in AppIds |-> FALSE]
    /\ applyTimers = [a \in AppIds |-> 0]
    /\ snap = [m \in Migrations |-> {}]
    /\ outcome = [m \in Migrations |-> "none"]
    /\ execCalls = [m \in Migrations |-> 0]
    /\ execResult = [m \in Migrations |-> "none"]
    /\ missed = [m \in Migrations |-> {}]
    /\ bcast = {}
    /\ appliedMig = [a \in AppIds |-> NoMigration]
    /\ sentFor = [a \in AppIds |-> <<>>]
    /\ timerFor = [a \in AppIds |-> <<>>]
    /\ ackFor = {}
    /\ opening = <<>>
    /\ ackSeen = {}

\* ------------------------------------------------- CoordinatorServer: registry

\* server.ts:34: uuidv4() gives an identifier no connection has had; the
\* identifiers are numbered in the order they are handed out
FreshAppId == CHOOSE a \in AppIds : readyState[a] = "NONE" /\ \A b \in AppIds : readyState[b] = "NONE" => a <= b

\* server.ts:69-70: the registered connections whose socket is OPEN
Connected == {a \in apps : readyState[a] = "OPEN"}

\* server.ts:65-76: the message goes to every registered connection whose
\* socket is OPEN; box is the channels before the send
broadcast(box, message) ==
    [a \in AppIds |-> IF a \in Connected THEN Append(box[a], message) ELSE box[a]]

\* server.ts:78-89: migrationId is read from this.currentMigration (cur)
sendPhase(box, cur, phase, st) == broadcast(box, PhaseMessage(phase, cur, st))

\* a connection callback that registers the participant and sends no WELCOME
handleConnectionSilent ==
    /\ alive
    /\ \E a \in AppIds : readyState[a] = "NONE"
    /\ LET appId == FreshAppId IN
         /\ apps' = apps \cup {appId}
         /\ readyState' = [readyState EXCEPT ![appId] = "OPEN"]
    /\ UNCHANGED <<coordVars, execVars, clientVars, inbox, outbox, sentFor>>

\* server.ts:33-37: the connection callback
handleConnection ==
    /\ alive
    /\ \E a \in AppIds : readyState[a] = "NONE"
    /\ LET appId == FreshAppId IN
         /\ apps' = apps \cup {appId}
         /\ readyState' = [readyState EXCEPT ![appId] = "OPEN"]
         /\ inbox' = [inbox EXCEPT ![appId] = Append(inbox[appId], WelcomeMessage(appId))]
    /\ UNCHANGED <<coordVars, execVars, clientVars, outbox, sentFor>>

\* an acknowledgment store that counts what arrives: a second
\* acknowledgment from appId adds a further entry
handleAcknowledgmentCounts(appId, message) ==
    LET withKey == IF ~MapHas(acknowledgments, message.phase) THEN MapSet(acknowledgments, message.phase, {}) ELSE acknowledgments
        entry == IF appId \in withKey[message.phase] THEN appId + MaxApps ELSE appId
    IN  MapSet(withKey, message.phase, withKey[message.phase] \cup {entry})

\* an acknowledgment store that files the sender under the appId the message
\* names
handleAcknowledgmentTrusts(appId, message) ==
    LET withKey == IF ~MapHas(acknowledgments, message.phase) THEN MapSet(acknowledgments, message.phase, {}) ELSE acknowledgments
    IN  MapSet(withKey, message.phase, withKey[message.phase] \cup {message.appId})

\* an acknowledgment store that records only what reports ACKNOWLEDGED
handleAcknowledgmentChecks(appId, message) ==
    LET withKey == IF ~MapHas(acknowledgments, message.phase) THEN MapSet(acknowledgments, message.phase, {}) ELSE acknowledgments
    IN  IF message.status = "ACKNOWLEDGED" THEN MapSet(withKey, message.phase, withKey[message.phase] \cup {appId}) ELSE withKey

\* server.ts:50-63: the acknowledgment set of message.phase, created when the
\* Map has none, gains appId (the identifier of the connection, not
\* message.appId); the value is the Map after the call
handleAcknowledgment(appId, message) ==
    LET withKey == IF ~MapHas(acknowledgments, message.phase) THEN MapSet(acknowledgments, message.phase, {}) ELSE acknowledgments
    IN  MapSet(withKey, message.phase, withKey[message.phase] \cup {appId})

\* server.ts:39-42: the message callback of connection a.  Nothing catches
\* what JSON.parse or handleAcknowledgment throws: the exception is uncaught
\* in the event loop and ends the process
OnMessage(a) ==
    /\ alive
    /\ outbox[a] # <<>>
    /\ outbox' = [outbox EXCEPT ![a] = Tail(outbox[a])]
    /\ sentFor' = [sentFor EXCEPT ![a] = Tail(sentFor[a])]
    /\ IF Throws(Head(outbox[a]))
       THEN /\ alive' = FALSE
            /\ UNCHANGED <<acknowledgments, ackFor, ackSeen>>
       ELSE /\ acknowledgments' = handleAcknowledgment(a, Head(outbox[a]))
            /\ ackFor' = ackFor \cup {<<Head(outbox[a]).phase, a, Head(sentFor[a])>>}
            /\ ackSeen' = ackSeen \cup {<<Head(outbox[a]).phase, a, Head(outbox[a]).status, Head(outbox[a]).appId>>}
            /\ UNCHANGED alive
    /\ UNCHANGED <<apps, readyState, currentMigration, status, sql, pc, ticked, snap, outcome, execCalls, calls, malformed, execResult, missed, bcast, opening, execVars, clientVars, inbox>>

\* The socket of connection a leaves OPEN (the peer closed it or the link
\* broke): server.ts:70 reads readyState; what was in flight on it is lost and
\* the client's pending timers can no longer send (app-client.ts:136-140)
BeginClose(a) ==
    /\ readyState[a] = "OPEN"
    /\ readyState' = [readyState EXCEPT ![a] = "CLOSING"]
    /\ inbox' = [inbox EXCEPT ![a] = <<>>]
    /\ outbox' = [outbox EXCEPT ![a] = <<>>]
    /\ applyTimers' = [applyTimers EXCEPT ![a] = 0]
    /\ sentFor' = [sentFor EXCEPT ![a] = <<>>]
    /\ timerFor' = [timerFor EXCEPT ![a] = <<>>]
    /\ UNCHANGED <<apps, coordVars, execVars, clientAppId, useNewSchema, appliedMig>>

\* a close callback that also takes the participant out of every
\* acknowledgment set
OnClosePrunes(a) ==
    /\ alive
    /\ readyState[a] = "CLOSING"
    /\ readyState' = [readyState EXCEPT ![a] = "CLOSED"]
    /\ apps' = apps \ {a}
    /\ acknowledgments' = [k \in DOMAIN acknowledgments |-> acknowledgments[k] \ {a}]
    /\ UNCHANGED <<ackFor, opening, ackSeen, currentMigration, status, sql, pc, calls, alive, malformed, ticked, snap, outcome, execCalls, execResult, missed, bcast>>
    /\ UNCHANGED <<execVars, clientVars, inbox, outbox, sentFor>>

\* server.ts:44-47: the close callback
OnClose(a) ==
    /\ alive
    /\ readyState[a] = "CLOSING"
    /\ readyState' = [readyState EXCEPT ![a] = "CLOSED"]
    /\ apps' = apps \ {a}
    /\ UNCHANGED <<coordVars, execVars, clientVars, inbox, outbox, sentFor>>

\* -------------------------------------------------------------- AppClient

\* a client that names ANNOUNCE in every acknowledgment it sends
sendAcknowledgmentAnnounce(a, phase) == Append(outbox[a], AckMessage("ANNOUNCE", "ACKNOWLEDGED", clientAppId[a]))

\* app-client.ts:91-100: the acknowledgment appended to the client's channel
sendAcknowledgment(a, phase) == Append(outbox[a], AckMessage(phase, "ACKNOWLEDGED", clientAppId[a]))

\* app-client.ts:36-89: the message callback of the client of connection a
handleMessage(a) ==
    /\ readyState[a] = "OPEN"
    /\ inbox[a] # <<>>
    /\ LET message == Head(inbox[a]) IN
         /\ inbox' = [inbox EXCEPT ![a] = Tail(inbox[a])]
         /\ clientAppId' = IF message.type = "WELCOME" THEN [clientAppId EXCEPT ![a] = message.appId] ELSE clientAppId
         /\ outbox' = IF message.type # "WELCOME" /\ message.phase = "ANNOUNCE" THEN [outbox EXCEPT ![a] = sendAcknowledgment(a, "ANNOUNCE")] ELSE outbox
         /\ useNewSchema' =
              IF message.type # "WELCOME" /\ message.phase = "APPLY" THEN [useNewSchema EXCEPT ![a] = TRUE]
              ELSE IF message.type # "WELCOME" /\ message.phase = "ROLLBACK" THEN [useNewSchema EXCEPT ![a] = FALSE]
              ELSE useNewSchema
         /\ applyTimers' = IF message.type # "WELCOME" /\ message.phase = "APPLY" THEN [applyTimers EXCEPT ![a] = @ + 1] ELSE applyTimers
         /\ appliedMig' = IF message.type # "WELCOME" /\ message.phase = "APPLY" THEN [appliedMig EXCEPT ![a] = message.migrationId] ELSE appliedMig
         /\ sentFor' = IF message.type # "WELCOME" /\ message.phase = "ANNOUNCE" THEN [sentFor EXCEPT ![a] = Append(@, message.migrationId)] ELSE sentFor
         /\ timerFor' = IF message.type # "WELCOME" /\ message.phase = "APPLY" THEN [timerFor EXCEPT ![a] = Append(@, message.migrationId)] ELSE timerFor
    /\ UNCHANGED <<apps, readyState, coordVars, execVars>>

\* app-client.ts:71-73: the callback of setTimeout(.., 100) set on APPLY
ApplyTimer(a) ==
    /\ readyState[a] = "OPEN"
    /\ applyTimers[a] > 0
    /\ applyTimers' = [applyTimers EXCEPT ![a] = @ - 1]
    /\ outbox' = [outbox EXCEPT ![a] = sendAcknowledgment(a, "APPLY")]
    /\ sentFor' = [sentFor EXCEPT ![a] = Append(@, Head(timerFor[a]))]
    /\ timerFor' = [timerFor EXCEPT ![a] = Tail(@)]
    /\ UNCHANGED <<apps, readyState, coordVars, execVars, inbox, clientAppId, useNewSchema, appliedMig>>

\* ------------------------------------------- CoordinatorServer: the wait

\* what no step of startMigration or executeMigrations touches
envVars == <<apps, readyState, outbox, clientAppId, useNewSchema, applyTimers, appliedMig, sentFor, timerFor>>

\* the phase call m waits for, when it waits
WaitPhase(m) == IF pc[m] = "waitAnnounce" THEN "ANNOUNCE" ELSE "APPLY"

\* history: the phases recorded for call m once its wait has resolved
Missed(m) == IF snap[m] \subseteq acknowledgments[WaitPhase(m)] THEN missed[m] ELSE missed[m] \cup {WaitPhase(m)}

\* server.ts:130-131 and 146-147 with 93: what the turn that opens the wait
\* for a phase does, in program order: sendPhase(phase) returns, then
\* waitForAcknowledgments(phase) is called and resets the set before its
\* first await
OpensWait(phase) == <<<<"sendPhase", phase>>, <<"reset", phase>>>>

\* a wait that keeps the set it finds under the phase
waitForAcknowledgmentsKeeps(phase) == IF MapHas(acknowledgments, phase) THEN acknowledgments ELSE MapSet(acknowledgments, phase, {})

\* server.ts:93: the reset that opens a wait; the value is the Map after it
waitForAcknowledgments(phase) == MapSet(acknowledgments, phase, {})

\* server.ts:105: the test the setInterval callback makes every 100 ms
QuorumReached(phase) == MapGetSize(acknowledgments, phase) = Cardinality(apps)

\* server.ts:114-121: rollback(reason), run by call m, which ends with it;
\* how names the path that led to it
rollback(m, how) ==
    /\ status' = IF currentMigration # NoMigration THEN [status EXCEPT ![currentMigration] = "FAILED"] ELSE status
    /\ inbox' = sendPhase(inbox, currentMigration, "ROLLBACK", Undefined)
    /\ bcast' = bcast \cup {<<currentMigration, "ROLLBACK", Undefined>>}
    /\ pc' = [pc EXCEPT ![m] = "done"]
    /\ snap' = [snap EXCEPT ![m] = {}]
    /\ ticked' = [ticked EXCEPT ![m] = FALSE]
    /\ outcome' = [outcome EXCEPT ![m] = how]

\* server.ts:123-131: startMigration(migration) up to its first await.  The
\* caller hands in a PENDING Migration object; the objects are numbered in
\* the order of the calls
startMigration(m) ==
    /\ alive
    /\ pc[m] = "idle"
    /\ \A k \in Migrations : k < m => pc[k] # "idle"
    /\ sql' = [sql EXCEPT ![m] = SqlOf(m)]
    /\ currentMigration' = m
    /\ status' = [status EXCEPT ![m] = "ANNOUNCING"]
    /\ inbox' = sendPhase(inbox, m, "ANNOUNCE", Undefined)
    /\ bcast' = bcast \cup {<<m, "ANNOUNCE", Undefined>>}
    /\ acknowledgments' = waitForAcknowledgments("ANNOUNCE")
    /\ ackFor' = {t \in ackFor : t[1] # "ANNOUNCE"}
    /\ opening' = OpensWait("ANNOUNCE")
    /\ ackSeen' = {t \in ackSeen : t[1] # "ANNOUNCE"}
    /\ snap' = [snap EXCEPT ![m] = Connected]
    /\ ticked' = [ticked EXCEPT ![m] = FALSE]
    /\ pc' = [pc EXCEPT ![m] = "waitAnnounce"]
    /\ calls' = [calls EXCEPT ![m] = @ + 1]
    /\ UNCHANGED <<envVars, alive, malformed, outcome, execCalls, execResult, missed, idx, txn, db>>

\* server.ts:104-110 then 133-136: the interval callback of call m's ANNOUNCE
\* wait finds quorum; the promise resolves and startMigration runs on to the
\* first await of executeMigrations (migration-executor.ts:12)
IntervalAnnounce(m) ==
    /\ alive
    /\ pc[m] = "waitAnnounce"
    /\ QuorumReached("ANNOUNCE")
    /\ status' = [status EXCEPT ![currentMigration] = "EXECUTING"]
    /\ inbox' = sendPhase(inbox, currentMigration, "EXECUTE", "RUNNING")
    /\ bcast' = bcast \cup {<<currentMigration, "EXECUTE", "RUNNING">>}
    /\ execCalls' = [execCalls EXCEPT ![m] = @ + 1]
    /\ missed' = [missed EXCEPT ![m] = Missed(m)]
    /\ snap' = [snap EXCEPT ![m] = {}]
    /\ ticked' = [ticked EXCEPT ![m] = FALSE]
    /\ pc' = [pc EXCEPT ![m] = "connect"]
    /\ UNCHANGED <<envVars, acknowledgments, ackFor, opening, ackSeen, currentMigration, sql, calls, alive, malformed, outcome, execResult, idx, txn, db>>

\* server.ts:104-110 then 149-153: the interval callback of call m's APPLY
\* wait finds quorum
IntervalApply(m) ==
    /\ alive
    /\ pc[m] = "waitApply"
    /\ QuorumReached("APPLY")
    /\ status' = [status EXCEPT ![currentMigration] = "COMPLETED"]
    /\ inbox' = sendPhase(inbox, currentMigration, "CONFIRM", Undefined)
    /\ bcast' = bcast \cup {<<currentMigration, "CONFIRM", Undefined>>}
    /\ missed' = [missed EXCEPT ![m] = Missed(m)]
    /\ snap' = [snap EXCEPT ![m] = {}]
    /\ ticked' = [ticked EXCEPT ![m] = FALSE]
    /\ pc' = [pc EXCEPT ![m] = "done"]
    /\ outcome' = [outcome EXCEPT ![m] = "completed"]
    /\ UNCHANGED <<envVars, acknowledgments, ackFor, opening, ackSeen, currentMigration, sql, execCalls, calls, alive, malformed, execResult, idx, txn, db>>

\* server.ts:104-110: an interval callback that finds no quorum
IntervalMiss(m) ==
    /\ alive
    /\ pc[m] \in {"waitAnnounce", "waitApply"}
    /\ ~QuorumReached(WaitPhase(m))
    /\ ~ticked[m]
    /\ ticked' = [ticked EXCEPT ![m] = TRUE]
    /\ UNCHANGED <<envVars, acknowledgments, ackFor, opening, ackSeen, currentMigration, status, sql, pc, snap, outcome, execCalls, calls, alive, malformed, execResult, missed, bcast, idx, txn, db, inbox>>

\* server.ts:95-102 then 154-156: the setTimeout callback of call m's wait.
\* It was set for 30000 ms together with the 100 ms interval, so an interval
\* callback has run before it; the promise rejects and the catch block calls
\* rollback
Timeout(m) ==
    /\ alive
    /\ pc[m] \in {"waitAnnounce", "waitApply"}
    /\ ticked[m]
    /\ rollback(m, IF pc[m] = "waitAnnounce" THEN "announceTimeout" ELSE "applyTimeout")
    /\ UNCHANGED <<envVars, acknowledgments, ackFor, opening, ackSeen, currentMigration, sql, execCalls, calls, alive, malformed, execResult, missed, idx, txn, db>>

\* ----------------------------------------------------- MigrationExecutor

\* migration-executor.ts:20: what COMMIT makes of the database d and the
\* statements t of the transaction: they become durable, after what was
\* committed before
TxCommit(d, t) == d \o t

\* a catch block that leaves what the transaction had run in the database
TxRollbackKeeps(d, t) == d \o t

\* migration-executor.ts:23: what the ROLLBACK of the catch block makes of
\* them: nothing of t stays
TxRollback(d, t) == d

\* migration-executor.ts:16-23: where the call goes once statement idx has
\* settled: on to the next statement, to COMMIT after the last, and to the
\* catch block when the database rejected it
AfterStatement(m, ok) ==
    IF ~ok THEN "rollbackTx"
    ELSE IF idx[m] + 1 <= Len(sql[m]) THEN "stmt" ELSE "commit"

\* migration-executor.ts:12: pool.connect() settles for call m; a rejection
\* leaves executeMigrations before its try block and reaches the catch block
\* of startMigration (server.ts:154-156)
PoolConnect(m, ok) ==
    /\ alive
    /\ pc[m] = "connect"
    /\ IF ok
       THEN /\ pc' = [pc EXCEPT ![m] = "begin"]
            /\ UNCHANGED <<status, inbox, bcast, outcome, execResult, snap, ticked>>
       ELSE /\ execResult' = [execResult EXCEPT ![m] = "throw"]
            /\ rollback(m, "execThrew")
    /\ UNCHANGED <<envVars, acknowledgments, ackFor, opening, ackSeen, currentMigration, sql, execCalls, calls, alive, malformed, missed, idx, txn, db>>

\* migration-executor.ts:14-18: BEGIN settles; on success the loop issues
\* its first statement, or COMMIT when the list is empty
QueryBegin(m, ok) ==
    /\ alive
    /\ pc[m] = "begin"
    /\ IF ok
       THEN /\ txn' = [txn EXCEPT ![m] = <<>>]
            /\ pc' = [pc EXCEPT ![m] = IF Len(sql[m]) >= 1 THEN "stmt" ELSE "commit"]
       ELSE /\ pc' = [pc EXCEPT ![m] = "rollbackTx"]
            /\ UNCHANGED txn
    /\ UNCHANGED <<envVars, acknowledgments, ackFor, opening, ackSeen, currentMigration, status, sql, ticked, snap, outcome, execCalls, calls, alive, malformed, execResult, missed, bcast, idx, db, inbox>>

\* migration-executor.ts:16-19: statement idx settles; a statement the
\* database rejects sends the call to the catch block
QueryStatement(m, ok) ==
    /\ alive
    /\ pc[m] = "stmt"
    /\ IF ok
       THEN /\ txn' = [txn EXCEPT ![m] = Append(@, sql[m][idx[m]])]
            /\ idx' = [idx EXCEPT ![m] = @ + 1]
       ELSE UNCHANGED <<txn, idx>>
    /\ pc' = [pc EXCEPT ![m] = AfterStatement(m, ok)]
    /\ UNCHANGED <<envVars, acknowledgments, ackFor, opening, ackSeen, currentMigration, status, sql, ticked, snap, outcome, execCalls, calls, alive, malformed, execResult, missed, bcast, db, inbox>>

\* migration-executor.ts:20-21 then server.ts:138-147: COMMIT settles; on
\* success executeMigrations returns { success: true } and startMigration
\* runs on to the APPLY wait
QueryCommit(m, ok) ==
    /\ alive
    /\ pc[m] = "commit"
    /\ IF ok
       THEN /\ db' = TxCommit(db, txn[m])
            /\ txn' = [txn EXCEPT ![m] = <<>>]
            /\ idx' = [idx EXCEPT ![m] = 1]
            /\ execResult' = [execResult EXCEPT ![m] = "ok"]
            /\ status' = [status EXCEPT ![currentMigration] = "APPLYING"]
            /\ inbox' = sendPhase(sendPhase(inbox, currentMigration, "EXECUTE", "COMPLETED"), currentMigration, "APPLY", Undefined)
            /\ bcast' = bcast \cup {<<currentMigration, "EXECUTE", "COMPLETED">>, <<currentMigration, "APPLY", Undefined>>}
            /\ acknowledgments' = waitForAcknowledgments("APPLY")
            /\ ackFor' = {t \in ackFor : t[1] # "APPLY"}
            /\ opening' = <<<<"sendPhase", "EXECUTE">>>> \o OpensWait("APPLY")
            /\ ackSeen' = {t \in ackSeen : t[1] # "APPLY"}
            /\ snap' = [snap EXCEPT ![m] = Connected]
            /\ pc' = [pc EXCEPT ![m] = "waitApply"]
       ELSE /\ pc' = [pc EXCEPT ![m] = "rollbackTx"]
            /\ UNCHANGED <<db, txn, idx, execResult, status, inbox, bcast, acknowledgments, ackFor, opening, ackSeen, snap>>
    /\ UNCHANGED <<envVars, currentMigration, sql, ticked, outcome, execCalls, calls, alive, malformed, missed>>

\* migration-executor.ts:22-28 then server.ts:138-141 (or 154-156): the
\* ROLLBACK of the catch block settles; on success executeMigrations returns
\* { success: false }, and a rejected ROLLBACK leaves it as an exception.
\* Either way the transaction is gone and startMigration calls rollback
QueryRollback(m, ok) ==
    /\ alive
    /\ pc[m] = "rollbackTx"
    /\ db' = TxRollback(db, txn[m])
    /\ txn' = [txn EXCEPT ![m] = <<>>]
    /\ idx' = [idx EXCEPT ![m] = 1]
    /\ execResult' = [execResult EXCEPT ![m] = IF ok THEN "err" ELSE "throw"]
    /\ rollback(m, IF ok THEN "execFailed" ELSE "execThrew")
    /\ UNCHANGED <<envVars, acknowledgments, ackFor, opening, ackSeen, currentMigration, sql, execCalls, calls, alive, malformed, missed>>

\* ------------------------------------------------------------------- Next

\* server.ts:33-37: the connection callback, in a run whose startMigration
\* calls overlap or are handed an object again
handleConnectionFew ==
    /\ Cardinality({a \in AppIds : readyState[a] # "NONE"}) < MaxAppsFew
    /\ handleConnection

\* startMigration calls are made whenever the caller likes, one for each
\* Migration object: nothing in server.ts:123-131 keeps two from overlapping
Next ==
    \/ handleConnectionFew
    \/ \E a \in AppIds : OnMessage(a)
    \/ \E a \in AppIds : BeginClose(a)
    \/ \E a \in AppIds : OnClose(a)
    \/ \E a \in AppIds : handleMessage(a)
    \/ \E a \in AppIds : ApplyTimer(a)
    \/ \E m \in Migrations : startMigration(m)
    \/ \E m \in Migrations : IntervalAnnounce(m)
    \/ \E m \in Migrations : IntervalApply(m)
    \/ \E m \in Migrations : IntervalMiss(m)
    \/ \E m \in Migrations : Timeout(m)
    \/ \E m \in Migrations, ok \in BOOLEAN : PoolConnect(m, ok)
    \/ \E m \in Migrations, ok \in BOOLEAN : QueryBegin(m, ok)
    \/ \E m \in Migrations, ok \in BOOLEAN : QueryStatement(m, ok)
    \/ \E m \in Migrations, ok \in BOOLEAN : QueryCommit(m, ok)
    \/ \E m \in Migrations, ok \in BOOLEAN : QueryRollback(m, ok)

Spec == Init /\ [][Next]_vars

\* A caller that awaits each startMigration call before it makes the next,
\* as the demo does (demo.ts:112): no two calls overlap
startMigrationAwaited(m) ==
    /\ \A k \in Migrations : pc[k] \in {"idle", "done"}
    /\ startMigration(m)

NextSerial ==
    \/ handleConnection
    \/ \E a \in AppIds : OnMessage(a)
    \/ \E a \in AppIds : BeginClose(a)
    \/ \E a \in AppIds : OnClose(a)
    \/ \E a \in AppIds : handleMessage(a)
    \/ \E a \in AppIds : ApplyTimer(a)
    \/ \E m \in Migrations : startMigrationAwaited(m)
    \/ \E m \in Migrations : IntervalAnnounce(m)
    \/ \E m \in Migrations : IntervalApply(m)
    \/ \E m \in Migrations : IntervalMiss(m)
    \/ \E m \in Migrations : Timeout(m)
    \/ \E m \in Migrations, ok \in BOOLEAN : PoolConnect(m, ok)
    \/ \E m \in Migrations, ok \in BOOLEAN : QueryBegin(m, ok)
    \/ \E m \in Migrations, ok \in BOOLEAN : QueryStatement(m, ok)
    \/ \E m \in Migrations, ok \in BOOLEAN : QueryCommit(m, ok)
    \/ \E m \in Migrations, ok \in BOOLEAN : QueryRollback(m, ok)

SpecSerial == Init /\ [][NextSerial]_vars

\* A peer that is no AppClient sends, on the open connection a, a text that
\* is no acknowledgment (server.ts:39-40 takes whatever arrives)
SendMalformed(a, data) ==
    /\ readyState[a] = "OPEN"
    /\ malformed < MaxMalformed
    /\ malformed' = malformed + 1
    /\ outbox' = [outbox EXCEPT ![a] = Append(@, data)]
    /\ sentFor' = [sentFor EXCEPT ![a] = Append(@, NoMigration)]
    /\ UNCHANGED <<apps, readyState, acknowledgments, ackFor, opening, ackSeen, currentMigration, status, sql, pc, calls, alive, ticked,
                   snap, outcome, execCalls, execResult, missed, bcast, execVars, clientVars, inbox>>

NextLenient ==
    \/ NextSerial
    \/ \E a \in AppIds, data \in Malformed : SendMalformed(a, data)

SpecLenient == Init /\ [][NextLenient]_vars

\* the startMigration calls made so far
CallsMade == Cardinality({c \in Migrations \X (1..(MaxCalls + 1)) : c[2] <= calls[c[1]]})

\* A peer that is no AppClient sends, on the open connection a, an
\* acknowledgment of its own making: at any time, with either status and any
\* appId (server.ts:39-41 hands whatever parses to handleAcknowledgment)
SendForged(a, data) ==
    /\ readyState[a] = "OPEN"
    /\ malformed < MaxForged
    /\ malformed' = malformed + 1
    /\ outbox' = [outbox EXCEPT ![a] = Append(@, data)]
    /\ sentFor' = [sentFor EXCEPT ![a] = Append(@, NoMigration)]
    /\ UNCHANGED <<apps, readyState, acknowledgments, ackFor, opening, ackSeen, currentMigration, status, sql, pc, calls, alive, ticked,
                   snap, outcome, execCalls, execResult, missed, bcast, execVars, clientVars, inbox>>

\* the caller of a run with such a peer makes MaxCallsPeer calls, each awaited
startMigrationPeer(m) ==
    /\ CallsMade < MaxCallsPeer
    /\ startMigrationAwaited(m)

NextPeer ==
    \/ handleConnection
    \/ \E a \in AppIds : OnMessage(a)
    \/ \E a \in AppIds : BeginClose(a)
    \/ \E a \in AppIds : OnClose(a)
    \/ \E a \in AppIds : handleMessage(a)
    \/ \E a \in AppIds : ApplyTimer(a)
    \/ \E a \in AppIds, data \in Forged : SendForged(a, data)
    \/ \E m \in Migrations : startMigrationPeer(m)
    \/ \E m \in Migrations : IntervalAnnounce(m)
    \/ \E m \in Migrations : IntervalApply(m)
    \/ \E m \in Migrations : IntervalMiss(m)
    \/ \E m \in Migrations : Timeout(m)
    \/ \E m \in Migrations, ok \in BOOLEAN : PoolConnect(m, ok)
    \/ \E m \in Migrations, ok \in BOOLEAN : QueryBegin(m, ok)
    \/ \E m \in Migrations, ok \in BOOLEAN : QueryStatement(m, ok)
    \/ \E m \in Migrations, ok \in BOOLEAN : QueryCommit(m, ok)
    \/ \E m \in Migrations, ok \in BOOLEAN : QueryRollback(m, ok)

SpecPeer == Init /\ [][NextPeer]_vars

\* server.ts:123-131: startMigration handed a Migration object whose earlier
\* call has returned (the object is COMPLETED or FAILED by then); nothing in
\* the method looks at the status it finds.  The caller awaits each call
startMigrationAgain(m) ==
    /\ alive
    /\ \A k \in Migrations : pc[k] \in {"idle", "done"}
    /\ pc[m] = "done"
    /\ CallsMade <= MaxCalls
    /\ currentMigration' = m
    /\ status' = [status EXCEPT ![m] = "ANNOUNCING"]
    /\ inbox' = sendPhase(inbox, m, "ANNOUNCE", Undefined)
    /\ bcast' = bcast \cup {<<m, "ANNOUNCE", Undefined>>}
    /\ acknowledgments' = waitForAcknowledgments("ANNOUNCE")
    /\ ackFor' = {t \in ackFor : t[1] # "ANNOUNCE"}
    /\ opening' = OpensWait("ANNOUNCE")
    /\ ackSeen' = {t \in ackSeen : t[1] # "ANNOUNCE"}
    /\ snap' = [snap EXCEPT ![m] = Connected]
    /\ ticked' = [ticked EXCEPT ![m] = FALSE]
    /\ pc' = [pc EXCEPT ![m] = "waitAnnounce"]
    /\ calls' = [calls EXCEPT ![m] = @ + 1]
    /\ UNCHANGED <<envVars, alive, malformed, sql, outcome, execCalls, execResult, missed, idx, txn, db>>

NextResubmit ==
    \/ handleConnectionFew
    \/ \E a \in AppIds : OnMessage(a)
    \/ \E a \in AppIds : BeginClose(a)
    \/ \E a \in AppIds : OnClose(a)
    \/ \E a \in AppIds : handleMessage(a)
    \/ \E a \in AppIds : ApplyTimer(a)
    \/ \E m \in Migrations : startMigrationAwaited(m)
    \/ \E m \in Migrations : startMigrationAgain(m)
    \/ \E m \in Migrations : IntervalAnnounce(m)
    \/ \E m \in Migrations : IntervalApply(m)
    \/ \E m \in Migrations : IntervalMiss(m)
    \/ \E m \in Migrations : Timeout(m)
    \/ \E m \in Migrations, ok \in BOOLEAN : PoolConnect(m, ok)
    \/ \E m \in Migrations, ok \in BOOLEAN : QueryBegin(m, ok)
    \/ \E m \in Migrations, ok \in BOOLEAN : QueryStatement(m, ok)
    \/ \E m \in Migrations, ok \in BOOLEAN : QueryCommit(m, ok)
    \/ \E m \in Migrations, ok \in BOOLEAN : QueryRollback(m, ok)

SpecResubmit == Init /\ [][NextResubmit]_vars

\* Timers fire and the database answers: the 100 ms interval of a wait keeps
\* running its callback (server.ts:104-110), the 30 s timer of a wait fires
\* (server.ts:95-102), and every promise executeMigrations awaits settles
\* (migration-executor.ts:12-23)
Fairness ==
    \A m \in Migrations :
        /\ WF_vars(IntervalAnnounce(m) \/ IntervalApply(m) \/ IntervalMiss(m))
        /\ WF_vars(Timeout(m))
        /\ WF_vars(\E ok \in BOOLEAN : PoolConnect(m, ok))
        /\ WF_vars(\E ok \in BOOLEAN : QueryBegin(m, ok))
        /\ WF_vars(\E ok \in BOOLEAN : QueryStatement(m, ok))
        /\ WF_vars(\E ok \in BOOLEAN : QueryCommit(m, ok))
        /\ WF_vars(\E ok \in BOOLEAN : QueryRollback(m, ok))

SpecFair == Spec /\ Fairness

SpecSerialFair == SpecSerial /\ Fairness

\* ------------------------------------------------------------- properties

\* the statements of migration m the database holds, in commit order
Applied(m) == SelectSeq(db, LAMBDA s : s[1] = m)

\* the migrations whose status is neither PENDING nor terminal
ActiveMigrations == {m \in Migrations : status[m] \in {"ANNOUNCING", "EXECUTING", "APPLYING"}}

\* the last message put on the channel to client a is ROLLBACK for migration m
RollbackSentLast(box, a, m) == box[a] # <<>> /\ box[a][Len(box[a])] = PhaseMessage("ROLLBACK", m, Undefined)

\* call m's wait resolves in this step
Resolves(m) ==
    \/ pc[m] = "waitAnnounce" /\ pc'[m] = "connect"
    \/ pc[m] = "waitApply" /\ pc'[m] = "done" /\ outcome'[m] = "completed"

\* C1: a migration whose status is COMPLETED had executeMigrations invoked
\* exactly once for it, and that invocation returned success.
C1_CompletedAfterOneSuccessfulExecution ==
    \A m \in Migrations : status[m] = "COMPLETED" => execCalls[m] = 1 /\ execResult[m] = "ok"

\* C2: a migration is COMPLETED only if, for ANNOUNCE and for APPLY, every
\* participant connected when the wait began had an entry in the phase's
\* acknowledgment set when the wait ended.
C2_CompletedOnlyWithEveryParticipant ==
    \A m \in Migrations : status[m] = "COMPLETED" => missed[m] = {}

\* C3: when the ANNOUNCE timeout fires with a connected participant
\* unacknowledged, the migration is FAILED from then on, ROLLBACK for it goes
\* to every connected participant, and neither the executor is invoked nor
\* EXECUTE, APPLY or CONFIRM broadcast for it.
C3_AnnounceTimeoutFailsWithoutExecution ==
    [][\A m \in Migrations :
         /\ (pc[m] = "waitAnnounce" /\ pc'[m] = "done" /\ \E a \in apps : a \notin acknowledgments["ANNOUNCE"])
              => /\ status'[m] = "FAILED"
                 /\ \A a \in Connected : RollbackSentLast(inbox', a, m)
         /\ outcome[m] = "announceTimeout"
              => /\ status'[m] = "FAILED"
                 /\ execCalls'[m] = 0
                 /\ \A t \in bcast' : t[1] = m => t[2] \in {"ANNOUNCE", "ROLLBACK"}]_vars

\* C4: when executeMigrations returns failure, the migration is FAILED,
\* ROLLBACK for it goes to every connected participant, and afterwards
\* neither EXECUTE(COMPLETED), APPLY nor CONFIRM is broadcast for it nor its
\* APPLY wait started.
C4_ExecutorFailureFailsWithoutApply ==
    [][\A m \in Migrations :
         /\ (pc[m] = "rollbackTx" /\ execResult'[m] = "err")
              => /\ status'[m] = "FAILED"
                 /\ \A a \in Connected : RollbackSentLast(inbox', a, m)
         /\ outcome[m] = "execFailed"
              => /\ status'[m] = "FAILED"
                 /\ pc'[m] # "waitApply"
                 /\ \A t \in bcast' : t[1] = m => t \notin {<<m, "EXECUTE", "COMPLETED">>, <<m, "APPLY", Undefined>>, <<m, "CONFIRM", Undefined>>}]_vars

\* C5: executeMigrations is all-or-nothing: the database holds all the
\* statements of a migration, in listed order, when the call returned
\* success, and none of them in every other case (the call still running,
\* returned failure, or thrown).
C5_AllOrNothing ==
    \A m \in Migrations : Applied(m) = IF execResult[m] = "ok" THEN sql[m] ELSE <<>>

\* one call has returned success with both its statements in the database
\* while another has returned failure and left none of its own
C5_OneCommittedOneRolledBack ==
    \E m, k \in Migrations :
        /\ execResult[m] = "ok" /\ Len(Applied(m)) = MaxSql
        /\ execResult[k] = "err" /\ pc[k] = "done" /\ Applied(k) = <<>>

\* C6: APPLY is broadcast for a migration only after its statements are
\* committed, so a participant whose useNewSchema is true applied a
\* migration whose statements the database holds.
C6_NewSchemaOnlyAfterCommit ==
    /\ \A m \in Migrations : <<m, "APPLY", Undefined>> \in bcast => execResult[m] = "ok"
    /\ \A a \in AppIds : useNewSchema[a] =>
         /\ appliedMig[a] \in Migrations
         /\ execResult[appliedMig[a]] = "ok"
         /\ Applied(appliedMig[a]) = sql[appliedMig[a]]

\* C7: while a participant that was connected when the APPLY wait began has
\* disconnected without acknowledging APPLY, the wait does not resolve: the
\* call does not complete the migration.
C7_DisconnectDuringApplyFails ==
    [][\A m \in Migrations :
         (pc[m] = "waitApply" /\ \E a \in snap[m] \ apps : a \notin acknowledgments["APPLY"])
            => outcome'[m] # "completed"]_vars

\* C8: a participant that connects after the APPLY wait began is not
\* required: once every participant connected when the wait began has
\* acknowledged APPLY, the wait does not end in timeout, late joiner or not.
C8_LateJoinerNotRequired ==
    [][\A m \in Migrations :
         (pc[m] = "waitApply" /\ snap[m] \subseteq acknowledgments["APPLY"] /\ apps \ snap[m] # {})
            => outcome'[m] # "applyTimeout"]_vars

\* C9: at the instant a wait resolves for phase P, every participant in the
\* registry has its identifier in P's acknowledgment set.
C9_ResolvesOnlyWhenAllAcknowledged ==
    [][\A m \in Migrations : Resolves(m) => apps \subseteq acknowledgments[WaitPhase(m)]]_vars

\* C10: at most one migration is active at a time, and a step of one
\* startMigration call writes the status of no other migration object.
C10_OneActiveMigration ==
    [][/\ Cardinality(ActiveMigrations') <= 1
       /\ \A m, k \in Migrations : (pc'[m] # pc[m] /\ k # m) => status'[k] = status[k]]_vars

\* C11: the status of a migration changes only along PENDING -> ANNOUNCING
\* -> EXECUTING -> APPLYING -> COMPLETED, or to FAILED from ANNOUNCING,
\* EXECUTING or APPLYING; a COMPLETED or FAILED status never changes again,
\* whatever the coordinator runs (rollback, a further startMigration).
C11_StatusFollowsLifecycle ==
    [][\A m \in Migrations : status'[m] # status[m] =>
         <<status[m], status'[m]>> \in
            {<<"PENDING", "ANNOUNCING">>, <<"ANNOUNCING", "EXECUTING">>, <<"EXECUTING", "APPLYING">>,
             <<"APPLYING", "COMPLETED">>, <<"ANNOUNCING", "FAILED">>, <<"EXECUTING", "FAILED">>,
             <<"APPLYING", "FAILED">>}]_vars

\* C12: when a startMigration call returns, the status of the migration it
\* was called with is COMPLETED or FAILED, and every call that did not
\* complete (wait timed out, executor returned failure or threw) shows as
\* FAILED: the catch block leaves no other way out of the call.
C12_ReturnsTerminalWithoutThrowing ==
    [][\A m \in Migrations : (pc[m] # "done" /\ pc'[m] = "done") =>
         /\ status'[m] \in {"COMPLETED", "FAILED"}
         /\ outcome'[m] # "completed" => status'[m] = "FAILED"]_vars

\* C13: with timers firing and the database answering, every migration that
\* was started (its status ANNOUNCING, EXECUTING or APPLYING) eventually has
\* status COMPLETED or FAILED, whatever participants do.
C13_EveryStartedMigrationEnds ==
    \A m \in Migrations : (status[m] \in {"ANNOUNCING", "EXECUTING", "APPLYING"}) ~> (status[m] \in {"COMPLETED", "FAILED"})

\* C14: when the APPLY wait of a call times out, its migration is FAILED
\* and ROLLBACK for it goes to every connected participant, while the
\* database keeps every statement of the migration: from then on the call
\* runs the executor no more and nothing committed is taken back.
C14_ApplyTimeoutKeepsSchema ==
    [][\A m \in Migrations :
         /\ (pc[m] = "waitApply" /\ outcome'[m] = "applyTimeout")
              => /\ status'[m] = "FAILED"
                 /\ \A a \in Connected : RollbackSentLast(inbox', a, m)
                 /\ db' = db
         /\ outcome[m] = "applyTimeout"
              => /\ status'[m] = "FAILED"
                 /\ execCalls'[m] = 1
                 /\ (Applied(m))' = sql[m]]_vars

\* C15: once a call has ended FAILED (ANNOUNCE timeout, executor failure or
\* APPLY timeout), startMigration is accepted for the next migration (the
\* first object not handed in yet, once every earlier call has ended), and
\* in each wait of that migration the poll passes as soon as every
\* participant, none having joined or left during the wait, has
\* acknowledged its broadcast: nothing the failed call left behind keeps
\* the next one from COMPLETED.
C15_NextMigrationUnaffectedByFailure ==
    \A m, k \in Migrations :
        (m # k /\ pc[m] = "done" /\ outcome[m] \in {"announceTimeout", "execFailed", "execThrew", "applyTimeout"}) =>
            /\ (pc[k] = "idle" /\ \A j \in Migrations : j < k => pc[j] = "done") => ENABLED startMigrationAwaited(k)
            /\ (pc[k] \in {"waitAnnounce", "waitApply"} /\ snap[k] = apps /\ \A a \in apps : <<WaitPhase(k), a, k>> \in ackFor)
                 => QuorumReached(WaitPhase(k))

\* a migration is COMPLETED, its two waits resolved on the acknowledgments
\* its participant sent for it, after the call before it had ended FAILED
C15_CompletedAfterFailed ==
    \E m, k \in Migrations :
        /\ m < k /\ status[m] = "FAILED" /\ outcome[m] \in {"announceTimeout", "execFailed", "applyTimeout"}
        /\ status[k] = "COMPLETED" /\ outcome[k] = "completed" /\ missed[k] = {}
        /\ \E a \in apps : <<"APPLY", a, k>> \in ackFor

\* C16: the coordinator ignores an inbound message that is no
\* acknowledgment (text that does not parse, no phase, unknown phase):
\* handling it changes neither the acknowledgment set of ANNOUNCE or APPLY,
\* nor the registry, nor any migration status, and the coordinator keeps
\* running.
C16_MalformedMessageIgnored ==
    [][\A a \in AppIds :
         (alive /\ outbox[a] # <<>> /\ Head(outbox[a]) \in Malformed /\ readyState'[a] = readyState[a] /\ outbox'[a] = Tail(outbox[a])) =>
            /\ \A p \in {"ANNOUNCE", "APPLY"} :
                  /\ MapHas(acknowledgments', p) = MapHas(acknowledgments, p)
                  /\ MapHas(acknowledgments, p) => acknowledgments'[p] = acknowledgments[p]
            /\ apps' = apps
            /\ status' = status
            /\ alive']_vars

\* the client of connection a handles the message at the head of its channel
\* in this step
Handles(a) == readyState[a] = "OPEN" /\ readyState'[a] = "OPEN" /\ inbox[a] # <<>> /\ inbox'[a] = Tail(inbox[a])

\* C17: a conforming participant sends an acknowledgment only when it handles
\* ANNOUNCE (at once, naming ANNOUNCE) and when the timer it set on handling
\* APPLY fires (naming APPLY); handling EXECUTE, CONFIRM or ROLLBACK sends
\* nothing; handling APPLY sets useNewSchema to true and sends nothing yet, so
\* the flag is set before the acknowledgment; handling ROLLBACK leaves
\* useNewSchema false.
C17_ParticipantConforms ==
    [][\A a \in AppIds :
          /\ Len(outbox'[a]) > Len(outbox[a]) =>
                /\ outbox'[a] = Append(outbox[a], outbox'[a][Len(outbox'[a])])
                /\ outbox'[a][Len(outbox'[a])].status = "ACKNOWLEDGED"
                /\ outbox'[a][Len(outbox'[a])].appId = clientAppId[a]
                /\ \/ /\ Handles(a)
                      /\ Head(inbox[a]).type # "WELCOME"
                      /\ Head(inbox[a]).phase = "ANNOUNCE"
                      /\ outbox'[a][Len(outbox'[a])].phase = "ANNOUNCE"
                   \/ /\ ~Handles(a)
                      /\ applyTimers[a] > 0
                      /\ applyTimers'[a] = applyTimers[a] - 1
                      /\ appliedMig[a] # NoMigration
                      /\ outbox'[a][Len(outbox'[a])].phase = "APPLY"
          /\ (Handles(a) /\ Head(inbox[a]).type # "WELCOME") =>
                /\ Head(inbox[a]).phase \in {"EXECUTE", "CONFIRM", "ROLLBACK"} => outbox'[a] = outbox[a] /\ applyTimers'[a] = applyTimers[a]
                /\ Head(inbox[a]).phase = "ROLLBACK" => useNewSchema'[a] = FALSE
                /\ Head(inbox[a]).phase = "APPLY" => useNewSchema'[a] = TRUE /\ outbox'[a] = outbox[a] /\ applyTimers'[a] = applyTimers[a] + 1]_vars

\* a participant whose acknowledgments of ANNOUNCE and of APPLY for one
\* migration have both reached the coordinator and which has handled a
\* ROLLBACK since it applied
C17_AckedBothThenRolledBack ==
    \E a \in AppIds : \E m \in Migrations :
        /\ <<"ANNOUNCE", a, m>> \in ackFor
        /\ <<"APPLY", a, m>> \in ackFor
        /\ appliedMig[a] = m
        /\ useNewSchema[a] = FALSE

\* the positions of the WELCOME messages queued on the channel of connection a
Welcomes(a) == {i \in 1..Len(inbox[a]) : inbox[a][i].type = "WELCOME"}

\* C18: each accepted connection gets WELCOME exactly once, as the first
\* message of its channel and carrying an identifier no other connection
\* has: at most one WELCOME is ever queued on a channel, at its head; an open
\* connection whose client has no identifier yet has its WELCOME queued ahead
\* of everything else; a client that has one has the identifier of its own
\* connection, different from every other client's, and no further WELCOME
\* queued; and the step that accepts a connection registers an identifier
\* that is in use nowhere and queues WELCOME on an empty channel.
C18_WelcomeFirstOnceFresh ==
    /\ [](\A a \in AppIds :
            /\ readyState[a] = "NONE" => inbox[a] = <<>> /\ clientAppId[a] = 0
            /\ Welcomes(a) \subseteq {1}
            /\ \A i \in Welcomes(a) : inbox[a][i] = WelcomeMessage(a)
            /\ (readyState[a] = "OPEN" /\ clientAppId[a] = 0) => Welcomes(a) = {1}
            /\ clientAppId[a] # 0 =>
                  /\ clientAppId[a] = a
                  /\ Welcomes(a) = {}
                  /\ \A b \in AppIds \ {a} : clientAppId[b] # clientAppId[a])
    /\ [][\A a \in AppIds : (readyState[a] = "NONE" /\ readyState'[a] # "NONE") =>
            /\ readyState'[a] = "OPEN"
            /\ a \notin apps /\ apps' = apps \cup {a}
            /\ inbox'[a] = <<WelcomeMessage(a)>>
            /\ \A b \in AppIds \ {a} : clientAppId[b] # a /\ \A i \in Welcomes(b) : inbox[b][i].appId # a]_vars

\* a connection accepted while a migration was in progress: its WELCOME is
\* still queued, followed by a phase message of a migration whose ANNOUNCE
\* it never got
C18_AcceptedDuringMigration ==
    \E a \in AppIds : \E m \in Migrations :
        /\ Len(inbox[a]) >= 2
        /\ inbox[a][1] = WelcomeMessage(a)
        /\ inbox[a][2].migrationId = m
        /\ inbox[a][2].phase \in {"EXECUTE", "APPLY", "CONFIRM", "ROLLBACK"}
        /\ status[m] \in {"EXECUTING", "APPLYING"}

\* C19: no acknowledgment counts toward a wait it was not sent for: at the
\* instant call m's wait for phase P resolves, every identifier in P's
\* acknowledgment set was put there, since the wait began, by an
\* acknowledgment the participant sent in response to migration m's
\* broadcast of P.
C19_OnlyOwnAcknowledgmentsCount ==
    [][\A m \in Migrations : Resolves(m) =>
          \A a \in acknowledgments[WaitPhase(m)] : <<WaitPhase(m), a, m>> \in ackFor]_vars

\* the positions in the turn that opened the latest wait at which it did what
Did(what, phase) == {i \in 1..Len(opening) : opening[i] = <<what, phase>>}

\* a call enters its wait for the phase in this step
Opens(phase) == \E m \in Migrations : pc[m] \notin {"waitAnnounce", "waitApply"} /\ pc'[m] \in {"waitAnnounce", "waitApply"} /\ (WaitPhase(m))' = phase

\* C20 as stated: the turn that opens a wait resets the phase's
\* acknowledgment set exactly once, and does so before it sends the phase's
\* broadcast.
C20_ResetBeforeBroadcast ==
    \A phase \in {"ANNOUNCE", "APPLY"} :
        Did("sendPhase", phase) # {} =>
            /\ Cardinality(Did("reset", phase)) = 1
            /\ \A i \in Did("reset", phase) : \A j \in Did("sendPhase", phase) : i < j

\* C20 as amended: the turn that opens a wait for a phase sends the phase's
\* broadcast and then, once and as its last act, resets the phase's
\* acknowledgment set; when the turn ends the set is empty and the broadcast
\* is still the last message queued to every open connection, so whatever is
\* sent in response is recorded after the reset; and no other step takes an
\* identifier out of the set.
C20_ResetOnceWithBroadcast ==
    [][\A phase \in {"ANNOUNCE", "APPLY"} :
          /\ Opens(phase) =>
                /\ (Cardinality(Did("reset", phase)) = 1)'
                /\ (Cardinality(Did("sendPhase", phase)) = 1)'
                /\ (Did("reset", phase) = {Len(opening)})'
                /\ (Did("sendPhase", phase) = {Len(opening) - 1})'
                /\ acknowledgments'[phase] = {}
                /\ \A a \in Connected :
                      /\ Len(inbox'[a]) > Len(inbox[a])
                      /\ inbox'[a][Len(inbox'[a])] = PhaseMessage(phase, currentMigration', Undefined)
          /\ (MapHas(acknowledgments, phase) /\ ~(acknowledgments[phase] \subseteq acknowledgments'[phase])) => Opens(phase)]_vars

\* the second migration's ANNOUNCE wait has opened after the first migration
\* completed, so on a set that held identifiers, and an acknowledgment sent
\* in response to its broadcast has been recorded
C20_AcknowledgedAfterReset ==
    /\ pc[2] = "waitAnnounce"
    /\ status[1] = "COMPLETED"
    /\ opening = OpensWait("ANNOUNCE")
    /\ \E a \in apps : <<"ANNOUNCE", a, 2>> \in ackFor /\ a \in acknowledgments["ANNOUNCE"]

\* the message callback of connection a handles, in this step, a message
\* that does not make it throw
Records(a) == alive /\ alive' /\ readyState'[a] = readyState[a] /\ outbox[a] # <<>> /\ outbox'[a] = Tail(outbox[a])

\* the connections from which an acknowledgment of the phase has been
\* recorded since the phase's last reset
Senders(phase) == {t[2] : t \in {u \in ackFor : u[1] = phase}}

\* C21: recording an acknowledgment is idempotent: handling an
\* acknowledgment of a phase from a participant already in that phase's set
\* leaves the whole Map unchanged, that set and every other; and the set of
\* a gating phase holds exactly the participants an acknowledgment of the
\* phase has come from since its reset, so that a participant's duplicates
\* stand in for no one else.
C21_RecordingIsIdempotent ==
    /\ [][\A a \in AppIds :
            (Records(a) /\ MapHas(acknowledgments, Head(outbox[a]).phase) /\ a \in acknowledgments[Head(outbox[a]).phase])
                => acknowledgments' = acknowledgments]_vars
    /\ [](\A phase \in {"ANNOUNCE", "APPLY"} : MapHas(acknowledgments, phase) => acknowledgments[phase] = Senders(phase))

\* two acknowledgments of the phase a call waits for have been recorded from
\* one participant, while another participant of the registry has sent none
C21_DuplicateWhileAnotherMissing ==
    \E m \in Migrations : \E a, b \in apps :
        /\ pc[m] \in {"waitAnnounce", "waitApply"}
        /\ <<WaitPhase(m), a, m>> \in ackFor
        /\ <<WaitPhase(m), a, NoMigration>> \in ackFor
        /\ b \notin acknowledgments[WaitPhase(m)]
        /\ Cardinality(acknowledgments[WaitPhase(m)]) = 1

\* the set the Map holds under a key, empty when it holds none
SetOf(map, k) == IF MapHas(map, k) THEN map[k] ELSE {}

\* C22: the identifier recorded for an acknowledgment is the one handed out
\* to the connection it arrived on, never the appId field of the message:
\* handling a message from connection a adds a, and nothing else, to the set
\* of the message's phase, and changes no other set.
C22_RecordsTheConnection ==
    [][\A a \in AppIds : Records(a) =>
          /\ DOMAIN acknowledgments' = DOMAIN acknowledgments \cup {Head(outbox[a]).phase}
          /\ acknowledgments'[Head(outbox[a]).phase] = SetOf(acknowledgments, Head(outbox[a]).phase) \cup {a}
          /\ \A k \in DOMAIN acknowledgments \ {Head(outbox[a]).phase} : acknowledgments'[k] = acknowledgments[k]]_vars

\* an acknowledgment naming another registered participant has been recorded
\* for the phase a call waits for, and that participant is not in the set
C22_NamedAnotherParticipant ==
    \E m \in Migrations : \E a, b \in apps :
        /\ a # b
        /\ pc[m] \in {"waitAnnounce", "waitApply"}
        /\ \E st \in AckStatus : <<WaitPhase(m), a, st, b>> \in ackSeen
        /\ a \in acknowledgments[WaitPhase(m)]
        /\ b \notin acknowledgments[WaitPhase(m)]

\* C23: handleAcknowledgment records the sender whatever the status field
\* says: handling an acknowledgment with status ERROR puts its connection in
\* the phase's set, and every connection an acknowledgment of a gating phase
\* has come from since the reset, ERROR or not, is in the set whose size the
\* poll compares with the registry.
C23_ErrorCountsAsAcknowledged ==
    /\ [][\A a \in AppIds : (Records(a) /\ Head(outbox[a]).status = "ERROR") =>
            acknowledgments'[Head(outbox[a]).phase] = SetOf(acknowledgments, Head(outbox[a]).phase) \cup {a}]_vars
    /\ [](\A t \in ackSeen : (t[1] \in {"ANNOUNCE", "APPLY"} /\ MapHas(acknowledgments, t[1])) => t[2] \in acknowledgments[t[1]])

\* a migration is COMPLETED, each wait resolved with every participant in the
\* set, and the only APPLY acknowledgment recorded from a participant that
\* was connected throughout reported ERROR
C23_CompletedDespiteError ==
    \E m \in Migrations : \E a \in apps :
        /\ status[m] = "COMPLETED"
        /\ outcome[m] = "completed"
        /\ missed[m] = {}
        /\ <<"ANNOUNCE", a, m>> \in ackFor
        /\ appliedMig[a] = m
        /\ \E id \in AppIds : <<"APPLY", a, "ERROR", id>> \in ackSeen
        /\ \A id \in AppIds : <<"APPLY", a, "ACKNOWLEDGED", id>> \notin ackSeen

\* call m is in a wait
Waits(m) == pc[m] \in {"waitAnnounce", "waitApply"}

NoParticipant == \A a \in AppIds : readyState[a] = "NONE"

\* C25: with no participant connected throughout, a startMigration call
\* does not fail for lack of acknowledgments: in each of its waits the poll
\* test passes (0 = 0) and no poll has missed, no wait of it has timed out,
\* the executor has been invoked once the ANNOUNCE wait is behind it, and a
\* call that has ended after the executor returned success has left its
\* migration COMPLETED.
C25_NoParticipantCompletes ==
    NoParticipant => \A m \in Migrations :
        /\ Waits(m) => QuorumReached(WaitPhase(m)) /\ ~ticked[m]
        /\ outcome[m] \notin {"announceTimeout", "applyTimeout"}
        /\ pc[m] \notin {"idle", "waitAnnounce"} => execCalls[m] = 1
        /\ (pc[m] = "done" /\ execResult[m] = "ok") => status[m] = "COMPLETED" /\ outcome[m] = "completed"

====
